---- MODULE Spec2Model ----
(***************************************************************************)
(* A model of HTMLRendererPlugin.toHTMLDOM (src/src/main.js): one pass     *)
(* over the lines of an FLT document that builds a DOM tree under the      *)
(* document body, followed by the cleanup of empty sections and            *)
(* paragraphs.                                                             *)
(*                                                                         *)
(* The DOM is a heap: a sequence of nodes, a node's id being its index.    *)
(* Node 1 is the document body.  A node that has been removed from its     *)
(* parent stays in the heap with parent 0.  Strings are sequences of       *)
(* tokens, so that concatenation (template literals) is \o; a fragment of  *)
(* text is a sequence of characters.                                       *)
(***************************************************************************)
EXTENDS Naturals, Sequences, FiniteSets, TLC

(* ------------------------------ bounds -------------------------------- *)
\* lines of one pass under Spec
MaxLines == 3
\* lines of one pass under SpecTable, and the largest declared column count
MaxTableLines == 5
MaxCols == 2
\* lines of one pass under SpecNote
MaxNoteLines == 5
\* lines of one pass under SpecStyle
MaxStyleLines == 1
\* lines of one pass under SpecBody
MaxBodyLines == 4
\* lines of one pass under SpecMeta, and the most values a metadata term has
MaxMetaLines == 1
MaxValues == 2
\* lines of each of the two passes under SpecTwo
MaxPassLines == 2
\* lines of one pass under SpecFragments
MaxFragmentLines == 2

(* ------------------------- values and strings ------------------------- *)
\* JavaScript null, for a variable that otherwise holds a string
Null == <<"<null>">>
\* a line's content or the pending hint used as a condition: if (hint), if (line.content)
Truthy(s) == s # Null /\ s # <<>>
\* no node: null for a node reference, undefined for a failed lookup
NoNode == 0
\* blob = null
NoBlob == [type |-> Null, data |-> Null]

Digit(d) ==
    CASE d = 0 -> "0" [] d = 1 -> "1" [] d = 2 -> "2" [] d = 3 -> "3" [] d = 4 -> "4"
      [] d = 5 -> "5" [] d = 6 -> "6" [] d = 7 -> "7" [] d = 8 -> "8" [] d = 9 -> "9"

\* ${noteIndex}: the decimal digits of a number
RECURSIVE Decimal(_)
Decimal(n) == IF n < 10 THEN <<Digit(n)>> ELSE Decimal(n \div 10) \o <<Digit(n % 10)>>

(* --------------------------- FLT constants ---------------------------- *)
T_SECTION == "T_SECTION"
T_PARAGRAPH == "T_PARAGRAPH"
T_HINT == "T_HINT"
T_LINK == "T_LINK"
T_ANCHOR == "T_ANCHOR"
T_BLOB == "T_BLOB"
T_IMAGE == "T_IMAGE"
T_TABLE == "T_TABLE"
T_DESTINATION == "T_DESTINATION"
\* a FLT.TextLine (it has no lineType)
TEXT == "TextLine"

D_BODY == "D_BODY"
D_NOTE == "D_NOTE"
D_CELL == "D_CELL"
D_HEAD == "D_HEAD"
Destinations == {D_BODY, D_NOTE, D_CELL, D_HEAD}

ALIGN_NONE == "ALIGN_NONE"
ALIGN_LEFT == "ALIGN_LEFT"
ALIGN_CENTER == "ALIGN_CENTER"
ALIGN_RIGHT == "ALIGN_RIGHT"

\* alignment class table
alignClasses ==
    [a \in {ALIGN_LEFT, ALIGN_CENTER, ALIGN_RIGHT} |->
        CASE a = ALIGN_LEFT -> "align-left"
          [] a = ALIGN_CENTER -> "align-center"
          [] a = ALIGN_RIGHT -> "align-right"]

(* ------------------------------ the DOM ------------------------------- *)
Body == 1

NewNode(tag) == [tag |-> tag, parent |-> NoNode, kids |-> <<>>, cls |-> {}, attrs |-> {}]

\* document.createElement / createTextNode: the new node's id is Len(h) + 1
createElement(h, tag) == Append(h, NewNode(tag))

\* parent.appendChild(c), c a node that has no parent yet
appendChild(h, p, c) == [h EXCEPT ![p].kids = Append(@, c), ![c].parent = p]

\* parent.appendChild(document.createElement(tag))
AppendNew(h, p, tag) == appendChild(createElement(h, tag), p, Len(h) + 1)

\* el.parentNode.removeChild(el)
removeChild(h, el) ==
    LET p == h[el].parent
    IN  [h EXCEPT ![p].kids = SelectSeq(@, LAMBDA k : k # el), ![el].parent = NoNode]

\* ref.insertAdjacentElement("beforeBegin", c), c a node that has no parent yet
insertBefore(h, ref, c) ==
    LET p == h[ref].parent
        ks == h[p].kids
        i == CHOOSE j \in 1..Len(ks) : ks[j] = ref
    IN  [h EXCEPT ![p].kids = SubSeq(ks, 1, i - 1) \o <<c>> \o SubSeq(ks, i, Len(ks)),
                  ![c].parent = p]

setAttribute(h, el, k, v) ==
    [h EXCEPT ![el].attrs = {a \in @ : a.k # k} \cup {[k |-> k, v |-> v]}]

hasAttribute(h, el, k) == \E a \in h[el].attrs : a.k = k

getAttribute(h, el, k) ==
    IF hasAttribute(h, el, k) THEN (CHOOSE a \in h[el].attrs : a.k = k).v ELSE Null

classListAdd(h, el, c) == [h EXCEPT ![el].cls = @ \cup {c}]

hasChildNodes(h, el) == h[el].kids # <<>>

IsElement(h, el) == h[el].tag # "#text"

\* el.lastElementChild (NoNode when there is none)
lastElementChild(h, el) ==
    LET es == SelectSeq(h[el].kids, LAMBDA k : IsElement(h, k))
    IN  IF es = <<>> THEN NoNode ELSE es[Len(es)]

\* the descendants of the nodes ks and the nodes themselves, in document order
RECURSIVE DocOrder(_, _)
DocOrder(h, ks) ==
    IF ks = <<>> THEN <<>>
    ELSE <<Head(ks)>> \o DocOrder(h, h[Head(ks)].kids) \o DocOrder(h, Tail(ks))

\* root.querySelectorAll("t1, t2"): the descendants with one of the tags, in document order
querySelectorAll(h, root, tags) ==
    SelectSeq(DocOrder(h, h[root].kids), LAMBDA e : h[e].tag \in tags)

\* [...list].slice(-1)[0]
LastOf(s) == IF s = <<>> THEN NoNode ELSE s[Len(s)]

\* :last-of-type
IsLastOfType(h, el) ==
    LET ks == h[h[el].parent].kids
        i == CHOOSE j \in 1..Len(ks) : ks[j] = el
    IN  \A j \in (i + 1)..Len(ks) : h[ks[j]].tag # h[el].tag

\* root.querySelector("tag:last-of-type")
querySelectorLastOfType(h, root, tag) ==
    LET s == SelectSeq(querySelectorAll(h, root, {tag}), LAMBDA e : IsLastOfType(h, e))
    IN  IF s = <<>> THEN NoNode ELSE s[1]

\* root.querySelector("tag")
querySelector(h, root, tag) ==
    LET s == querySelectorAll(h, root, {tag})
    IN  IF s = <<>> THEN NoNode ELSE s[1]

\* el.closest("t1, t2"): el or its nearest ancestor with one of the tags
RECURSIVE closest(_, _, _)
closest(h, el, tags) ==
    IF el = NoNode THEN NoNode
    ELSE IF h[el].tag \in tags THEN el
    ELSE closest(h, h[el].parent, tags)

\* a.contains(b): b is a or a descendant of a
RECURSIVE contains(_, _, _)
contains(h, a, b) ==
    IF b = NoNode THEN FALSE
    ELSE IF a = b THEN TRUE
    ELSE contains(h, a, h[b].parent)

\* el.appendChild(document.createTextNode(data))
AppendText(h, el, data) ==
    setAttribute(AppendNew(h, el, "#text"), Len(h) + 1, "data", data)

\* el.textContent = data, el an element without children: no node for the empty string
setTextContent(h, el, data) == IF data = <<>> THEN h ELSE AppendText(h, el, data)

(* ------------------------------ the lines ----------------------------- *)
\* the style flags of a text line, as the set of those that are set
StyleFlags == {"italic", "bold", "underline", "strikeout", "mono", "supertext", "subtext"}

SectionLine(reset, align, brk) ==
    [reset |-> reset, align |-> align, brk |-> brk, kind |-> T_SECTION]
ParagraphLine(reset, align) == [reset |-> reset, align |-> align, kind |-> T_PARAGRAPH]
HintLine(reset, content) == [reset |-> reset, kind |-> T_HINT, content |-> content]
LinkLine(reset, content) == [reset |-> reset, kind |-> T_LINK, content |-> content]
AnchorLine(reset, content) == [reset |-> reset, kind |-> T_ANCHOR, content |-> content]
BlobLine(reset, mediaType, data) ==
    [data |-> data, reset |-> reset, kind |-> T_BLOB, mediaType |-> mediaType]
ImageLine(reset, content) == [reset |-> reset, kind |-> T_IMAGE, content |-> content]
TableLine(reset, content) == [reset |-> reset, kind |-> T_TABLE, content |-> content]
DestinationLine(reset, destination, header) ==
    [reset |-> reset, kind |-> T_DESTINATION, destination |-> destination, header |-> header]
TextLine(reset, text, style) == [reset |-> reset, kind |-> TEXT, text |-> text, style |-> style]
\* before the first line
NoLine == [reset |-> FALSE, kind |-> "none"]

(* ------------------------- the render context ------------------------- *)
VARIABLES
    heap,       \* the nodes of the document
    noteIndex,  \* the number of the next footnote
    link,       \* the open link element, or NoNode
    hint,       \* the pending tooltip, or Null
    blob,       \* the pending blob, or NoBlob
    sect,       \* the current section
    dest,       \* the render destination
    line,       \* the line the loop processed last
    pos,        \* the number of lines processed
    limit,      \* the pass ends after at most this many lines
    pc,         \* "setup" | "loop" | "done" (after the cleanup) | "error" (the pass threw)
    err,        \* the error thrown, or NoError
    head,       \* the children of the document head
    dc,         \* the document's metadata: this.features.DCMETA and this.getDC
    hist,       \* history: the lines this pass has processed, when two passes run
    other,      \* the context and tree of the other pass when two passes run, or NoPass
    paras       \* history: the paragraphs that PARAGRAPH lines created, with the
                \* destination BODY, NOTE or CELL, since the last DESTINATION,
                \* SECTION, TABLE or text line

vars == <<heap, noteIndex, link, hint, blob, sect, dest, line, pos, limit, pc, err, head, dc,
          hist, other, paras>>

\* a single pass: there is no other call of toHTMLDOM
NoPass == [pc |-> "none"]

NoError == [kind |-> "", message |-> <<>>]
FLTError(message) == [kind |-> "FLTError", message |-> message]
\* a property of undefined is read
TypeError == [kind |-> "TypeError", message |-> <<>>]
\* BigInt division by zero
RangeError == [kind |-> "RangeError", message |-> <<"Division by zero">>]

(* ---------------------- the document and its head --------------------- *)
\* the terms this.getDC is asked for
DCTerms == {"date", "source", "title", "description", "creator", "subject"}

\* a document without the DCMETA feature
NoDC == [enabled |-> FALSE, terms |-> [t \in DCTerms |-> <<>>]]

\* this.getDC(term): the values of the term, in order; none when it is absent
getDC(d, term) == d.terms[term]

\* value.join(", ")
RECURSIVE Join(_)
Join(value) ==
    IF value = <<>> THEN <<>>
    ELSE IF Len(value) = 1 THEN value[1]
    ELSE value[1] \o <<", ">> \o Join(Tail(value))

\* a child of the head: an element with its attributes and text, or a comment
HeadNode(tag, attrs, text) == [tag |-> tag, attrs |-> attrs, text |-> text]

\* og(term, value): <meta property="og:term" content="value">
og(hd, term, value) ==
    Append(hd, HeadNode("meta", {[k |-> "property", v |-> <<"og:", term>>],
                                 [k |-> "content", v |-> value]}, <<>>))

\* value.forEach((v) => og(name, v))
RECURSIVE ogEach(_, _, _)
ogEach(hd, name, value) ==
    IF value = <<>> THEN hd ELSE ogEach(og(hd, name, Head(value)), name, Tail(value))

\* the table of the terms, in the order of the for ... in loop
terms ==
    << [term |-> "title", name |-> "title", merge |-> TRUE],
       [term |-> "description", name |-> "description", merge |-> TRUE],
       [term |-> "creator", name |-> "article:author", merge |-> FALSE],
       [term |-> "subject", name |-> "article:tag", merge |-> FALSE],
       [term |-> "date", name |-> "article:published_time", merge |-> FALSE] >>

\* !value, value an array: an array is truthy, the empty one too
NotValue(value) == FALSE

\* the body of the loop over the terms, for the terms ts in turn
RECURSIVE ogTerms(_, _, _)
ogTerms(hd, d, ts) ==
    IF ts = <<>> THEN hd
    ELSE LET value == getDC(d, Head(ts).term)
             merged == IF Head(ts).merge THEN <<Join(value)>> ELSE value
         IN  IF NotValue(value) THEN ogTerms(hd, d, Tail(ts))
             ELSE ogTerms(ogEach(hd, Head(ts).name, merged), d, Tail(ts))

\* applyMetadata(document): the title tag and the opengraph tags
applyMetadata(hd, d) ==
    IF ~d.enabled THEN hd
    ELSE LET title == Join(getDC(d, "title"))
             h1 == IF Truthy(title) THEN Append(hd, HeadNode("title", {}, title)) ELSE hd
         IN  ogTerms(og(h1, "type", <<"article">>), d, terms)

\* document.createComment(` ${label}: ${s} `) for each value s
RECURSIVE Comments(_, _, _)
Comments(hd, label, value) ==
    IF value = <<>> THEN hd
    ELSE Comments(Append(hd, HeadNode("#comment", {}, <<" ", label, ": ">> \o Head(value) \o <<" ">>)),
                  label, Tail(value))

\* the head of the document, with the default options (no external stylesheet)
DocumentHead(d) ==
    LET h0 == <<HeadNode("meta", {[k |-> "http-equiv", v |-> <<"Content-Type">>],
                                  [k |-> "content", v |-> <<"text/html; charset=utf-8">>]}, <<>>)>>
        h1 == IF d.enabled
              THEN Comments(Comments(h0, "Date", getDC(d, "date")), "Source", getDC(d, "source"))
              ELSE h0
        h2 == Append(h1, HeadNode("style", {}, <<"style">>))
    IN  applyMetadata(h2, d)

\* the body of the document before the lines, with the default options
\* (insertHeading): the h1 of the title, and the first section
DocumentBody(d) ==
    LET b == <<NewNode("body")>>
        title == Join(getDC(d, "title"))
        h == IF d.enabled /\ Truthy(title)
             THEN setTextContent(setAttribute(AppendNew(b, Body, "h1"), Len(b) + 1,
                                              "id", <<"title">>),
                                 Len(b) + 1, title)
             ELSE b
    IN  AppendNew(h, Body, "section")

\* the render context of a pass of at most n lines over a document without
\* the DCMETA feature
Start(n) ==
    /\ limit = n
    /\ other = NoPass
    /\ hist = <<>>
    /\ paras = <<>>
    /\ dc = NoDC
    /\ head = DocumentHead(NoDC)
    /\ heap = AppendNew(<<NewNode("body")>>, Body, "section")
    /\ noteIndex = 1
    /\ link = NoNode
    /\ hint = Null
    /\ blob = NoBlob
    /\ sect = 2
    /\ dest = D_BODY
    /\ line = NoLine
    /\ pos = 0
    /\ pc = "loop"
    /\ err = NoError

\* mutant: the link is closed by every line, with or without the reset flag
LinkAfterResetCleared(l) == NoNode

\* mutants: reset() leaves the link, or the hint, as it was
LinkAfterResetKept(l) == link
HintAfterResetKept(l) == hint

\* reset(), called when line.reset is set, before the line is handled
LinkAfterReset(l) == IF l.reset THEN NoNode ELSE link
HintAfterReset(l) == IF l.reset THEN Null ELSE hint

\* mutant: the section's last paragraph child is used when it has one
BodyDestLastParagraph(h, s) ==
    LET ps == SelectSeq(h[s].kids, LAMBDA k : h[k].tag = "p")
    IN  IF ps = <<>>
        THEN [h |-> AppendNew(h, s, "p"), el |-> Len(h) + 1, err |-> NoError]
        ELSE [h |-> h, el |-> ps[Len(ps)], err |-> NoError]

\* mutant: the new paragraph is appended to the document body
BodyDestInBody(h, s) ==
    LET p == lastElementChild(h, s)
    IN  IF p = NoNode \/ h[p].tag # "p"
        THEN [h |-> AppendNew(h, Body, "p"), el |-> Len(h) + 1, err |-> NoError]
        ELSE [h |-> h, el |-> p, err |-> NoError]

\* destEl() for D_BODY: the section's last element child if it is a paragraph,
\* else a new paragraph appended to the section
BodyDest(h, s) ==
    LET p == lastElementChild(h, s)
    IN  IF p = NoNode \/ h[p].tag # "p"
        THEN [h |-> AppendNew(h, s, "p"), el |-> Len(h) + 1, err |-> NoError]
        ELSE [h |-> h, el |-> p, err |-> NoError]

\* destEl(): the current destination element, in the heap it leaves behind.  A
\* lookup that yields undefined makes every caller throw a TypeError at its next
\* step (it reads a property of the result), before it changes anything.
destEl(h, s, d) ==
    CASE d = D_BODY -> BodyDest(h, s)
      [] d = D_NOTE ->
            LET note == LastOf(querySelectorAll(h, s, {"aside"}))
                p == IF note = NoNode THEN NoNode ELSE LastOf(querySelectorAll(h, note, {"p"}))
            IN  [h |-> h, el |-> p, err |-> IF p = NoNode THEN TypeError ELSE NoError]
      [] d = D_CELL ->
            LET cell == LastOf(querySelectorAll(h, s, {"th", "td"}))
                cont == IF cell = NoNode THEN NoNode
                        ELSE LastOf(querySelectorAll(h, cell, {"aside", "p"}))
            IN  [h |-> h, el |-> IF cont # NoNode THEN cont ELSE cell,
                 err |-> IF cell = NoNode THEN TypeError ELSE NoError]
      [] d = D_HEAD ->
            LET e == lastElementChild(h, s)
            IN  IF e = NoNode \/ h[e].tag # "h2"
                THEN [h |-> AppendNew(h, s, "h2"), el |-> Len(h) + 1, err |-> NoError]
                ELSE [h |-> h, el |-> e, err |-> NoError]
      [] OTHER ->
            [h |-> h, el |-> NoNode,
             err |-> FLTError(<<"Unknown render destination ", d>>)]

\* toHTMLDOM up to the render context: the head and the body of the document
Setup ==
    /\ pc = "setup"
    /\ head' = DocumentHead(dc)
    /\ heap' = DocumentBody(dc)
    /\ sect' = Len(DocumentBody(dc))
    /\ pc' = "loop"
    /\ UNCHANGED <<noteIndex, link, hint, blob, dest, line, pos, limit, err, dc, hist, other,
                   paras>>

\* the loop takes the next line: line.reset is handled first, for all types
Take(l) ==
    /\ pc = "loop"
    /\ pos < limit
    /\ UNCHANGED <<limit, head, dc, other>>
    /\ line' = l
    /\ pos' = pos + 1
    /\ hist' = IF other = NoPass THEN hist ELSE Append(hist, l)

\* the paragraphs that await their text line once the line taken has been
\* handled and left the document as h: a PARAGRAPH line adds the paragraph it
\* created, the last node of h
ParasAfter(h) ==
    CASE line'.kind \in {T_DESTINATION, T_SECTION, T_TABLE, TEXT} -> <<>>
      [] line'.kind = T_PARAGRAPH /\ dest \in {D_BODY, D_NOTE, D_CELL} -> Append(paras, Len(h))
      [] OTHER -> paras

\* the line's handler threw e with the document as h
Throw(h, e) ==
    /\ heap' = h
    /\ pc' = "error"
    /\ err' = e
    /\ paras' = paras

\* the line's handler returned with the document as h
Continue(h) ==
    /\ heap' = h
    /\ pc' = "loop"
    /\ err' = NoError
    /\ paras' = ParasAfter(h)

(* ----------------------------- two passes ----------------------------- *)
\* the locals of the running call of toHTMLDOM (its render context, its
\* document, its position in its lines), as they are when it is suspended
Suspended ==
    [heap |-> heap, noteIndex |-> noteIndex, link |-> link, hint |-> hint, blob |-> blob,
     sect |-> sect, dest |-> dest, line |-> line, pos |-> pos, limit |-> limit, pc |-> pc,
     err |-> err, head |-> head, dc |-> dc, hist |-> hist, paras |-> paras]

\* mutant: noteIndex is a variable of the module, shared by all calls
ContextCounterGlobal(c) == noteIndex

\* let noteIndex = 1: the counter is a local of the call
ContextCounter(c) == c.noteIndex

\* the call with the locals c runs on
Resume(c) ==
    /\ heap' = c.heap
    /\ noteIndex' = ContextCounter(c)
    /\ link' = c.link
    /\ hint' = c.hint
    /\ blob' = c.blob
    /\ sect' = c.sect
    /\ dest' = c.dest
    /\ line' = c.line
    /\ pos' = c.pos
    /\ limit' = c.limit
    /\ pc' = c.pc
    /\ err' = c.err
    /\ head' = c.head
    /\ dc' = c.dc
    /\ hist' = c.hist
    /\ paras' = c.paras

\* between two lines the other call runs on and this one is suspended
Switch ==
    /\ other # NoPass
    /\ Resume(other)
    /\ other' = Suspended

(* ------------------------- the line handlers -------------------------- *)
\* el.classList.add(alignClasses[align]) if (align in alignClasses)
ApplyAlign(h, el, align) ==
    IF align \in DOMAIN alignClasses THEN classListAdd(h, el, alignClasses[align]) ELSE h

\* mutant: the section keeps the destination of the section before it
SectionDestStale == dest

\* dest = FLT.Constants.D_BODY: the target is reset to body when a new section is created
SectionDest == D_BODY

\* mutant: the break flag alone decides
NeedsDividerAlways(h, new, brk) == brk

\* line.break && sect.parentElement.querySelector("section") !== sect
NeedsDivider(h, new, brk) == brk /\ querySelector(h, h[new].parent, "section") # new

\* T_SECTION: start a new section
Section(l) ==
    /\ l.kind = T_SECTION
    /\ Take(l)
    /\ link' = NoNode
    /\ hint' = HintAfterReset(l)
    /\ dest' = SectionDest
    /\ LET h1 == IF ~hasChildNodes(heap, sect) THEN removeChild(heap, sect) ELSE heap
           new == Len(h1) + 1
           h2 == ApplyAlign(AppendNew(h1, Body, "section"), new, l.align)
           h3 == IF NeedsDivider(h2, new, l.brk)
                 THEN insertBefore(createElement(h2, "hr"), new, Len(h2) + 1)
                 ELSE h2
       IN  /\ sect' = new
           /\ Continue(h3)
    /\ UNCHANGED <<noteIndex, blob>>

\* mutant: the new paragraph always goes to the section
ParagraphContainerSection(h, el) == closest(h, el, {"section"})

\* destEl().closest("aside, td, th, section")
ParagraphContainer(h, el) == closest(h, el, {"aside", "td", "th", "section"})

\* T_PARAGRAPH: start a new paragraph
Paragraph(l) ==
    /\ l.kind = T_PARAGRAPH
    /\ Take(l)
    /\ link' = NoNode
    /\ hint' = HintAfterReset(l)
    /\ LET r == destEl(heap, sect, dest)
           cont == ParagraphContainer(r.h, r.el)
       IN  IF r.err # NoError THEN Throw(r.h, r.err)
           ELSE Continue(ApplyAlign(AppendNew(r.h, cont, "p"), Len(r.h) + 1, l.align))
    /\ UNCHANGED <<noteIndex, blob, sect, dest>>

\* T_HINT: set the tooltip content
Hint(l) ==
    /\ l.kind = T_HINT
    /\ Take(l)
    /\ link' = LinkAfterReset(l)
    /\ hint' = l.content
    /\ Continue(heap)
    /\ UNCHANGED <<noteIndex, blob, sect, dest>>

\* mutant: the hint stays pending after it became a title
HintAfterTitleKept(t) == t

\* if (hint) el.setAttribute("title", hint), (hint = null)
WithTitle(h, el, t) == IF Truthy(t) THEN setAttribute(h, el, "title", t) ELSE h
HintAfterTitle(t) == IF Truthy(t) THEN Null ELSE t

\* T_LINK: create a link
Link(l) ==
    /\ l.kind = T_LINK
    /\ Take(l)
    /\ LET r == destEl(heap, sect, dest)
           a == Len(r.h) + 1
           h1 == setAttribute(AppendNew(r.h, r.el, "a"), a, "href", l.content)
       IN  IF r.err # NoError
           THEN /\ Throw(r.h, r.err)
                /\ link' = LinkAfterReset(l)
                /\ hint' = HintAfterReset(l)
           ELSE /\ Continue(WithTitle(h1, a, HintAfterReset(l)))
                /\ link' = a
                /\ hint' = HintAfterTitle(HintAfterReset(l))
    /\ UNCHANGED <<noteIndex, blob, sect, dest>>

\* T_ANCHOR: create an anchor
Anchor(l) ==
    /\ l.kind = T_ANCHOR
    /\ Take(l)
    /\ link' = LinkAfterReset(l)
    /\ hint' = HintAfterReset(l)
    /\ LET r == destEl(heap, sect, dest)
       IN  IF r.err # NoError THEN Throw(r.h, r.err)
           ELSE Continue(setAttribute(AppendNew(r.h, r.el, "a"), Len(r.h) + 1,
                                      "name", l.content))
    /\ UNCHANGED <<noteIndex, blob, sect, dest>>

\* T_BLOB: set the blob content
Blob(l) ==
    /\ l.kind = T_BLOB
    /\ Take(l)
    /\ link' = LinkAfterReset(l)
    /\ hint' = HintAfterReset(l)
    /\ blob' = [type |-> l.mediaType, data |-> l.data]
    /\ Continue(heap)
    /\ UNCHANGED <<noteIndex, sect, dest>>

\* `data:${blob.type};base64,${blob.data}`
DataURI(b) == <<"data:">> \o b.type \o <<";base64,">> \o b.data

\* mutant: the image consumes the pending blob
BlobAfterImageCleared(b) == NoBlob

\* the blob an image that took its content from the pending blob leaves behind
BlobAfterImage(b) == b

\* mutant: the pending blob is tested before the line's content
MissingImageBlobFirst(content, b) == b = NoBlob

\* neither line.content nor a pending blob: "No image content available" is thrown
MissingImage(content, b) == ~Truthy(content) /\ b = NoBlob

\* T_IMAGE: create an image
Image(l) ==
    /\ l.kind = T_IMAGE
    /\ Take(l)
    /\ link' = LinkAfterReset(l)
    /\ LET r == destEl(heap, sect, dest)
           img == Len(r.h) + 1
           h1 == AppendNew(r.h, r.el, "img")
       IN  IF r.err # NoError
           THEN Throw(r.h, r.err) /\ hint' = HintAfterReset(l) /\ blob' = blob
           ELSE IF MissingImage(l.content, blob)
           THEN /\ Throw(h1, FLTError(<<"No image content available">>))
                /\ hint' = HintAfterReset(l)
                /\ blob' = blob
           ELSE IF Truthy(l.content)
           THEN /\ Continue(WithTitle(setAttribute(h1, img, "src", l.content), img,
                                      HintAfterReset(l)))
                /\ hint' = HintAfterTitle(HintAfterReset(l))
                /\ blob' = blob
           ELSE /\ Continue(WithTitle(setAttribute(h1, img, "src", DataURI(blob)), img,
                                      HintAfterReset(l)))
                /\ hint' = HintAfterTitle(HintAfterReset(l))
                /\ blob' = BlobAfterImage(blob)
    /\ UNCHANGED <<noteIndex, sect, dest>>

\* T_TABLE: create a table
Table(l) ==
    /\ l.kind = T_TABLE
    /\ Take(l)
    /\ link' = LinkAfterReset(l)
    /\ hint' = HintAfterReset(l)
    /\ Continue(setAttribute(AppendNew(heap, sect, "table"), Len(heap) + 1,
                             "fltColumns", l.content))
    /\ UNCHANGED <<noteIndex, blob, sect, dest>>

\* `flt-note-return-${n}` and `flt-note-${n}`; the href to a name is `#${name}`
NoteReturnName(n) == <<"flt-note-return-">> \o Decimal(n)
NoteName(n) == <<"flt-note-">> \o Decimal(n)
HrefTo(name) == <<"#">> \o name

\* mutant: the footnote counter is not incremented
NextNoteIndexStuck(n) == n

\* noteIndex++
NextNoteIndex(n) == n + 1

\* mutant: the footnote is created without its first paragraph
OpenNoteBare(h, at, s, n) ==
    LET a == Len(h) + 1
        h1 == setAttribute(AppendNew(h, at, "a"), a, "name", NoteReturnName(n))
        h2 == classListAdd(setAttribute(h1, a, "href", HrefTo(NoteName(n))), a, "to-note")
        h3 == setTextContent(h2, a, Decimal(n))
        note == Len(h3) + 1
        h4 == AppendNew(h3, s, "aside")
        b == Len(h4) + 1
        h5 == setAttribute(AppendNew(h4, note, "a"), b, "name", NoteName(n))
    IN  classListAdd(setAttribute(h5, b, "href", HrefTo(NoteReturnName(n))), b, "from-note")

\* D_NOTE: the forward anchor at the element at, the footnote with its back anchor
\* and its first paragraph in the section s
OpenNote(h, at, s, n) ==
    LET a == Len(h) + 1
        h1 == setAttribute(AppendNew(h, at, "a"), a, "name", NoteReturnName(n))
        h2 == classListAdd(setAttribute(h1, a, "href", HrefTo(NoteName(n))), a, "to-note")
        h3 == setTextContent(h2, a, Decimal(n))
        note == Len(h3) + 1
        h4 == AppendNew(h3, s, "aside")
        b == Len(h4) + 1
        h5 == setAttribute(AppendNew(h4, note, "a"), b, "name", NoteName(n))
        h6 == classListAdd(setAttribute(h5, b, "href", HrefTo(NoteReturnName(n))), b, "from-note")
    IN  AppendNew(h6, note, "p")

\* mutant: the row test counts the cell that is about to be added
NeedsNewRowOffByOne(row, cellCount, columns) ==
    row = NoNode \/ (cellCount + 1) % columns = 0

\* !row || !(BigInt(cellCount) % BigInt(table.fltColumns)), the divisor not 0
NeedsNewRow(row, cellCount, columns) == row = NoNode \/ cellCount % columns = 0

\* line.header ? "th" : "td"
CellTag(header) == IF header THEN "th" ELSE "td"

\* D_CELL: the next cell of the table, in a new row or in the table's last row
OpenCell(h, table, header) ==
    LET cellCount == Len(querySelectorAll(h, table, {"th", "td"}))
        row == querySelectorLastOfType(h, table, "tr")
        new == NeedsNewRow(row, cellCount, getAttribute(h, table, "fltColumns"))
        h1 == IF new THEN AppendNew(h, table, "tr") ELSE h
    IN  AppendNew(h1, IF new THEN Len(h) + 1 ELSE row, CellTag(header))

\* the modulo of the row test is evaluated with a divisor of zero
DividesByZero(h, table) ==
    /\ querySelectorLastOfType(h, table, "tr") # NoNode
    /\ getAttribute(h, table, "fltColumns") = 0

\* mutant: the table is looked up in the whole document
CellTableAnywhere(h, s) == querySelectorLastOfType(h, Body, "table")

\* sect.querySelector("table:last-of-type"): the table a cell is added to
CellTable(h, s) == querySelectorLastOfType(h, s, "table")

\* mutant: a DESTINATION line leaves the link open
LinkAfterDestinationKept(l) == LinkAfterReset(l)

\* link = null, the first statement of the T_DESTINATION handler
LinkAfterDestination(l) == NoNode

\* T_DESTINATION: set the render destination
Destination(l) ==
    /\ l.kind = T_DESTINATION
    /\ Take(l)
    /\ link' = LinkAfterDestination(l)
    /\ hint' = HintAfterReset(l)
    /\ UNCHANGED blob
    /\ CASE l.destination = D_NOTE ->
              LET r == destEl(heap, sect, dest)
              IN  IF r.err # NoError
                  THEN Throw(r.h, r.err) /\ UNCHANGED <<noteIndex, sect, dest>>
                  ELSE /\ Continue(OpenNote(r.h, r.el, sect, noteIndex))
                       /\ noteIndex' = NextNoteIndex(noteIndex)
                       /\ dest' = l.destination
                       /\ UNCHANGED sect
         [] l.destination = D_CELL ->
              LET table == CellTable(heap, sect)
              IN  IF table = NoNode
                  THEN /\ Throw(heap, FLTError(<<"Cannot set destination to D_CELL when no table is defined">>))
                       /\ UNCHANGED <<noteIndex, sect, dest>>
                  ELSE IF DividesByZero(heap, table)
                  THEN Throw(heap, RangeError) /\ UNCHANGED <<noteIndex, sect, dest>>
                  ELSE /\ Continue(OpenCell(heap, table, l.header))
                       /\ dest' = l.destination
                       /\ UNCHANGED <<noteIndex, sect>>
         [] l.destination = D_HEAD ->
              /\ Continue(AppendNew(heap, Body, "section"))
              /\ sect' = Len(heap) + 1
              /\ dest' = l.destination
              /\ UNCHANGED noteIndex
         [] OTHER ->
              /\ Continue(heap)
              /\ dest' = l.destination
              /\ UNCHANGED <<noteIndex, sect>>

\* line.text.split(/\n/u), the text a sequence of characters
RECURSIVE Split(_)
Split(t) ==
    IF \A i \in 1..Len(t) : t[i] # "\n" THEN <<t>>
    ELSE LET i == CHOOSE j \in 1..Len(t) : t[j] = "\n" /\ \A k \in 1..(j - 1) : t[k] # "\n"
         IN  <<SubSeq(t, 1, i - 1)>> \o Split(SubSeq(t, i + 1, Len(t)))

\* if (flag) out = out.appendChild(document.createElement(tag)): the heap and out
Wrap(w, flag, tag) ==
    IF flag THEN [h |-> AppendNew(w.h, w.out, tag), out |-> Len(w.h) + 1] ELSE w

\* the span of underline, strikeout and mono, with a class for each that is set
WrapSpan(w, style) ==
    LET s == Wrap(w, style \cap {"underline", "strikeout", "mono"} # {}, "span")
        c == {c \in {"underline", "strikeout", "monospace"} :
                \/ c = "underline" /\ "underline" \in style
                \/ c = "strikeout" /\ "strikeout" \in style
                \/ c = "monospace" /\ "mono" \in style}
    IN  IF s.out = w.out THEN w ELSE [h |-> [s.h EXCEPT ![s.out].cls = @ \cup c], out |-> s.out]

\* mutant: the bold wrapper is created before the italic one
WrappersBoldFirst(h, out, style) ==
    Wrap(Wrap(WrapSpan(Wrap(Wrap([h |-> h, out |-> out],
                                 "bold" \in style, "strong"),
                            "italic" \in style, "em"),
                       style),
              "supertext" \in style, "sup"),
         "subtext" \in style, "sub")

\* the wrappers of a text line, from the insertion point out
Wrappers(h, out, style) ==
    Wrap(Wrap(WrapSpan(Wrap(Wrap([h |-> h, out |-> out],
                                 "italic" \in style, "em"),
                            "bold" \in style, "strong"),
                       style),
              "supertext" \in style, "sup"),
         "subtext" \in style, "sub")

\* mutant: a line break follows every fragment
RECURSIVE AppendFragmentsTrailingBreak(_, _, _)
AppendFragmentsTrailingBreak(h, out, fragments) ==
    LET h1 == AppendNew(AppendText(h, out, Head(fragments)), out, "br")
    IN  IF Tail(fragments) = <<>> THEN h1
        ELSE AppendFragmentsTrailingBreak(h1, out, Tail(fragments))

\* do { text node; if (fragments.length) br } while (fragments.length)
RECURSIVE AppendFragments(_, _, _)
AppendFragments(h, out, fragments) ==
    LET h1 == AppendText(h, out, Head(fragments))
    IN  IF Tail(fragments) = <<>> THEN h1
        ELSE AppendFragments(AppendNew(h1, out, "br"), out, Tail(fragments))

\* mutant: the open link is the insertion point wherever it is
InsertionPointAnywhere(h, out, lnk) == IF lnk # NoNode THEN lnk ELSE out

\* if (link && out.contains(link)) out = link
InsertionPoint(h, out, lnk) == IF lnk # NoNode /\ contains(h, out, lnk) THEN lnk ELSE out

\* a FLT.TextLine: formatted text
Text(l) ==
    /\ l.kind = TEXT
    /\ Take(l)
    /\ link' = LinkAfterReset(l)
    /\ hint' = HintAfterReset(l)
    /\ LET r == destEl(heap, sect, dest)
           w == Wrappers(r.h, InsertionPoint(r.h, r.el, LinkAfterReset(l)), l.style)
       IN  IF r.err # NoError THEN Throw(r.h, r.err)
           ELSE Continue(AppendFragments(w.h, w.out, Split(l.text)))
    /\ UNCHANGED <<noteIndex, blob, sect, dest>>

\* if (!el.hasChildNodes()) el.parentNode.removeChild(el), for each el of els in turn
RECURSIVE RemoveEmpty(_, _)
RemoveEmpty(h, els) ==
    IF els = <<>> THEN h
    ELSE RemoveEmpty(IF ~hasChildNodes(h, Head(els)) THEN removeChild(h, Head(els)) ELSE h,
                     Tail(els))

\* the cleanup pass over document.querySelectorAll("section, p")
CleanupPass(h) == RemoveEmpty(h, querySelectorAll(h, Body, {"section", "p"}))

\* the lines are exhausted: cleanup, and the document is returned
Cleanup ==
    /\ pc = "loop"
    /\ heap' = CleanupPass(heap)
    /\ pc' = "done"
    /\ UNCHANGED <<noteIndex, link, hint, blob, sect, dest, line, pos, limit, err, head, dc,
                   hist, other, paras>>

(* ------------------------- the specifications ------------------------- *)
Resets == BOOLEAN
\* of the lines of the narrower passes none carries the reset flag
NoReset == {FALSE}
Hints == {<<>>, <<"tip">>}
Contents == {<<"url">>}
ImageContents == {Null, <<"url">>}
Aligns == {ALIGN_NONE, ALIGN_CENTER}
\* the destination and the header flag of a DESTINATION line
Targets == {<<D_BODY, FALSE>>, <<D_NOTE, FALSE>>, <<D_CELL, FALSE>>, <<D_CELL, TRUE>>,
            <<D_HEAD, FALSE>>}

\* a pass over any lines, of at most MaxLines lines
Init == Start(MaxLines)

Next ==
    \/ \E r \in Resets, a \in Aligns, b \in BOOLEAN : Section(SectionLine(r, a, b))
    \/ \E r \in Resets, a \in Aligns : Paragraph(ParagraphLine(r, a))
    \/ \E r \in Resets, c \in Hints : Hint(HintLine(r, c))
    \/ \E r \in Resets, c \in Contents : Link(LinkLine(r, c))
    \/ \E r \in Resets, c \in Contents : Anchor(AnchorLine(r, c))
    \/ \E r \in Resets : Blob(BlobLine(r, <<"image/png">>, <<"AAAA">>))
    \/ \E r \in Resets, c \in ImageContents : Image(ImageLine(r, c))
    \/ \E r \in Resets, c \in 0..MaxCols : Table(TableLine(r, c))
    \/ \E r \in Resets, t \in Targets : Destination(DestinationLine(r, t[1], t[2]))
    \/ \E r \in Resets : Text(TextLine(r, <<"a">>, {}))
    \/ Cleanup

Spec == Init /\ [][Next]_vars

\* a pass over the lines that open footnotes and move between destinations and
\* sections, of at most MaxNoteLines lines
InitNote == Start(MaxNoteLines)

NextNote ==
    \/ \E t \in Targets : Destination(DestinationLine(FALSE, t[1], t[2]))
    \/ \E r \in NoReset : Section(SectionLine(r, ALIGN_NONE, FALSE))
    \/ \E r \in NoReset : Paragraph(ParagraphLine(r, ALIGN_NONE))
    \/ \E r \in NoReset : Table(TableLine(r, 1))
    \/ \E r \in NoReset : Text(TextLine(r, <<"a">>, {}))
    \/ Cleanup

SpecNote == InitNote /\ [][NextNote]_vars

\* a pass over the lines that declare tables and fill them, of at most
\* MaxTableLines lines and tables of at most MaxCols columns
InitTable == Start(MaxTableLines)

NextTable ==
    \/ \E c \in 1..MaxCols : Table(TableLine(FALSE, c))
    \/ \E t \in Targets : Destination(DestinationLine(FALSE, t[1], t[2]))
    \/ \E r \in NoReset : Section(SectionLine(r, ALIGN_NONE, FALSE))
    \/ \E r \in NoReset : Paragraph(ParagraphLine(r, ALIGN_NONE))
    \/ \E r \in NoReset : Text(TextLine(r, <<"a">>, {}))
    \/ Cleanup

SpecTable == InitTable /\ [][NextTable]_vars

\* a pass over text lines of every combination of the style flags, and the links
\* they may be inserted in, of at most MaxStyleLines lines
InitStyle == Start(MaxStyleLines)

NextStyle ==
    \/ \E s \in SUBSET StyleFlags : Text(TextLine(FALSE, <<"a">>, s))
    \/ \E r \in NoReset : Link(LinkLine(r, <<"url">>))
    \/ Cleanup

SpecStyle == InitStyle /\ [][NextStyle]_vars

\* a pass over lines of every kind but DESTINATION, of at most MaxBodyLines lines
InitBody == Start(MaxBodyLines)

NextBody ==
    \/ \E b \in BOOLEAN : Section(SectionLine(FALSE, ALIGN_NONE, b))
    \/ \E r \in NoReset : Paragraph(ParagraphLine(r, ALIGN_NONE))
    \/ \E r \in NoReset : Hint(HintLine(r, <<"tip">>))
    \/ \E r \in NoReset : Link(LinkLine(r, <<"url">>))
    \/ \E r \in NoReset : Anchor(AnchorLine(r, <<"url">>))
    \/ \E r \in NoReset : Blob(BlobLine(r, <<"image/png">>, <<"AAAA">>))
    \/ \E r \in NoReset : Image(ImageLine(r, <<"url">>))
    \/ \E r \in NoReset : Table(TableLine(r, 1))
    \/ \E r \in Resets : Text(TextLine(r, <<"a">>, {"bold"}))
    \/ Cleanup

SpecBody == InitBody /\ [][NextBody]_vars

\* the values a metadata term may have: none, one or more
ValueLists == {SubSeq(<< <<"x">>, <<"y">>, <<"z">>, <<"w">> >>, 1, n) : n \in 0..MaxValues}
\* the documents: with or without the DCMETA feature, with any values of the terms
DCs == {[enabled |-> e, terms |-> f] : e \in BOOLEAN, f \in [DCTerms -> ValueLists]}

\* toHTMLDOM from its first statement, for a document with any metadata and at
\* most MaxMetaLines lines
InitMeta ==
    /\ dc \in DCs
    /\ other = NoPass
    /\ hist = <<>>
    /\ paras = <<>>
    /\ limit = MaxMetaLines
    /\ head = <<>>
    /\ heap = <<NewNode("body")>>
    /\ sect = NoNode
    /\ noteIndex = 1
    /\ link = NoNode
    /\ hint = Null
    /\ blob = NoBlob
    /\ dest = D_BODY
    /\ line = NoLine
    /\ pos = 0
    /\ pc = "setup"
    /\ err = NoError

NextMeta ==
    \/ Setup
    \/ \E r \in NoReset : Text(TextLine(r, <<"a">>, {}))
    \/ Cleanup

SpecMeta == InitMeta /\ [][NextMeta]_vars

\* the texts of the text lines: with no, one and more line breaks, at the
\* start, at the end and in a row
Texts == { <<>>, <<"a">>, <<"a", "\n", "b">>, <<"\n">>, <<"a", "\n", "\n", "b">>,
           <<"\n", "a", "b", "\n">> }

\* a pass over text lines with embedded line breaks, plain and wrapped, and the
\* links they may be inserted in, of at most MaxFragmentLines lines
InitFragments == Start(MaxFragmentLines)

NextFragments ==
    \/ \E t \in Texts, s \in {{}, {"bold", "mono"}} : Text(TextLine(FALSE, t, s))
    \/ \E r \in NoReset : Link(LinkLine(r, <<"url">>))
    \/ Cleanup

SpecFragments == InitFragments /\ [][NextFragments]_vars

\* two passes, each over at most MaxPassLines lines of the kinds that use the
\* render context, their steps interleaved in any order
InitTwo ==
    /\ limit = MaxPassLines
    /\ hist = <<>>
    /\ paras = <<>>
    /\ dc = NoDC
    /\ head = DocumentHead(NoDC)
    /\ heap = DocumentBody(NoDC)
    /\ noteIndex = 1
    /\ link = NoNode
    /\ hint = Null
    /\ blob = NoBlob
    /\ sect = Len(DocumentBody(NoDC))
    /\ dest = D_BODY
    /\ line = NoLine
    /\ pos = 0
    /\ pc = "loop"
    /\ err = NoError
    /\ other = Suspended

NextTwo ==
    \/ Switch
    \/ \E r \in NoReset : Destination(DestinationLine(r, D_NOTE, FALSE))
    \/ \E r \in NoReset : Section(SectionLine(r, ALIGN_NONE, FALSE))
    \/ \E r \in NoReset : Hint(HintLine(r, <<"tip">>))
    \/ \E r \in NoReset : Link(LinkLine(r, <<"url">>))
    \/ \E r \in NoReset : Blob(BlobLine(r, <<"image/png">>, <<"AAAA">>))
    \/ \E r \in NoReset : Image(ImageLine(r, Null))
    \/ \E r \in NoReset : Text(TextLine(r, <<"a">>, {}))
    \/ Cleanup

SpecTwo == InitTwo /\ [][NextTwo]_vars

(* ------------------------------ the claims ---------------------------- *)
\* the step processes a line (the other steps are the cleanup and stuttering)
LineTaken == pos' = pos + 1

\* the ids of the nodes, in the order of their creation
Ids(h) == [i \in 1..Len(h) |-> i]

\* the node is in the document
Attached(h, n) == contains(h, Body, n)

\* the nodes of a class, in the order of their creation
Marked(h, c) == SelectSeq(Ids(h), LAMBDA n : c \in h[n].cls)

\* the nodes with a tag
Tagged(h, tags) == {n \in 1..Len(h) : h[n].tag \in tags}

\* the nodes that carry a title
Titled(h) == {n \in 1..Len(h) : hasAttribute(h, n, "title")}

NoImageContent == FLTError(<<"No image content available">>)

\* C1: the destination starts as BODY; a SECTION line leaves it BODY, a
\* DESTINATION line that completes leaves it the line's target, every other
\* line (and the cleanup) leaves it as it was.
C1_DestinationFollowsLines ==
    /\ dest = D_BODY
    /\ [][/\ LineTaken =>
                CASE line'.kind = T_SECTION -> dest' = D_BODY
                  [] line'.kind = T_DESTINATION ->
                        (pc' = "loop" => dest' = line'.destination)
                  [] OTHER -> dest' = dest
          /\ ~LineTaken => dest' = dest]_vars

\* a DESTINATION line to CELL has completed, and then a SECTION line was processed
C1_Witness ==
    /\ line.kind = T_SECTION
    /\ dest = D_BODY
    /\ Tagged(heap, {"td", "th"}) # {}

\* C2: the n-th DESTINATION line to NOTE creates the n-th forward anchor and the
\* n-th back anchor, named with the number n and linking to each other's names;
\* all of them are in the document, after the cleanup too.
C2_FootnoteNumbering ==
    /\ [](LET F == Marked(heap, "to-note")
              B == Marked(heap, "from-note")
          IN  /\ Len(F) = Len(B)
              /\ \A i \in 1..Len(F) :
                    /\ getAttribute(heap, F[i], "name") = <<"flt-note-return-">> \o Decimal(i)
                    /\ getAttribute(heap, B[i], "name") = <<"flt-note-">> \o Decimal(i)
                    /\ getAttribute(heap, F[i], "href") = <<"#">> \o getAttribute(heap, B[i], "name")
                    /\ getAttribute(heap, B[i], "href") = <<"#">> \o getAttribute(heap, F[i], "name")
                    /\ Attached(heap, F[i])
                    /\ Attached(heap, B[i])
                    /\ heap[B[i]].parent \in Tagged(heap, {"aside"}))
    /\ [][Len(Marked(heap', "to-note")) =
             IF LineTaken /\ line'.kind = T_DESTINATION /\ line'.destination = D_NOTE
             THEN Len(Marked(heap, "to-note")) + 1
             ELSE Len(Marked(heap, "to-note"))]_vars

\* three footnotes were opened, in more than one section, and the cleanup has run
C2_Witness ==
    /\ pc = "done"
    /\ Len(Marked(heap, "to-note")) = 3
    /\ Cardinality({heap[n].parent : n \in Tagged(heap, {"aside"})}) > 1

\* the rows and the cells of a table
RowsOf(h, t) == SelectSeq(h[t].kids, LAMBDA r : h[r].tag = "tr")
CellCount(h, t) == Len(querySelectorAll(h, t, {"th", "td"}))

\* C3: a table of C >= 1 columns with K cells has ceil(K / C) rows, of C cells
\* each but the last, which has K mod C cells (C when C divides K); every
\* DESTINATION line to CELL that completes adds one cell, to the last table of
\* the current section, and nothing else adds a cell.
C3_RowWrapping ==
    /\ [](\A t \in Tagged(heap, {"table"}) :
            LET C == getAttribute(heap, t, "fltColumns")
                K == CellCount(heap, t)
                rows == RowsOf(heap, t)
            IN  C >= 1 =>
                  /\ Len(rows) = (K + C - 1) \div C
                  /\ \A i \in 1..Len(rows) :
                        /\ \A c \in 1..Len(heap[rows[i]].kids) :
                              heap[heap[rows[i]].kids[c]].tag \in {"th", "td"}
                        /\ Len(heap[rows[i]].kids) =
                              IF i < Len(rows) THEN C ELSE IF K % C = 0 THEN C ELSE K % C)
    /\ [][\A t \in Tagged(heap', {"table"}) :
             CellCount(heap', t) =
                IF t \in Tagged(heap, {"table"})
                THEN CellCount(heap, t) +
                        (IF /\ LineTaken /\ pc' = "loop"
                            /\ line'.kind = T_DESTINATION /\ line'.destination = D_CELL
                            /\ t = LastOf(querySelectorAll(heap, sect, {"table"}))
                         THEN 1 ELSE 0)
                ELSE 0]_vars

\* a table of 2 columns holds 3 cells, header cells and data cells
C3_Witness ==
    \E t \in Tagged(heap, {"table"}) :
        /\ getAttribute(heap, t, "fltColumns") = 2
        /\ CellCount(heap, t) = 3
        /\ Len(RowsOf(heap, t)) = 2
        /\ \E a, b \in Tagged(heap, {"th", "td"}) :
              /\ heap[a].parent = heap[b].parent
              /\ heap[heap[a].parent].parent = t
              /\ heap[a].tag # heap[b].tag

\* C4: after the cleanup a second cleanup changes nothing: no section and no
\* paragraph of the document is without children.
C4_CleanupIdempotent ==
    pc = "done" =>
        /\ CleanupPass(heap) = heap
        /\ \A n \in Tagged(heap, {"section", "p"}) : Attached(heap, n) => hasChildNodes(heap, n)

\* C5 as claimed: an IMAGE line without inline content that took the pending
\* blob leaves blob null.
C5_BlobSingleUse ==
    (line.kind = T_IMAGE /\ pc # "error" /\ ~Truthy(line.content)) => blob = NoBlob

\* C5 as amended: an IMAGE line without inline content that finds a pending blob
\* completes, encodes that blob as the source of its image and leaves blob as it
\* was, so the next such line uses the same payload.
C5_BlobReused ==
    [][(LineTaken /\ line'.kind = T_IMAGE /\ ~Truthy(line'.content) /\ blob # NoBlob) =>
          /\ pc' = "loop"
          /\ blob' = blob
          /\ Len(heap') > Len(heap)
          /\ heap'[Len(heap')].tag = "img"
          /\ getAttribute(heap', Len(heap'), "src") = DataURI(blob)]_vars

\* two IMAGE lines without inline content have used the blob of one BLOB line
C5_Witness ==
    /\ pos = 3
    /\ line.kind = T_IMAGE
    /\ ~Truthy(line.content)
    /\ Cardinality({n \in Tagged(heap, {"img"}) :
                       getAttribute(heap, n, "src") = DataURI(blob)}) = 2

\* C6: blob is null exactly until the first BLOB line; an IMAGE line without
\* inline content processed while it is null aborts the pass with the FLTError
\* "No image content available", and an IMAGE line with inline content never
\* raises that error.
C6_NoImageContent ==
    [][/\ blob' = NoBlob <=> (blob = NoBlob /\ ~(LineTaken /\ line'.kind = T_BLOB))
       /\ (LineTaken /\ line'.kind = T_IMAGE) =>
             IF ~Truthy(line'.content) /\ blob = NoBlob
             THEN pc' = "error" /\ err' = NoImageContent
             ELSE Truthy(line'.content) => (pc' = "loop" /\ err' # NoImageContent)]_vars

\* an IMAGE line without inline content aborted a pass that had processed other lines
C6_Witness ==
    /\ pos = 3
    /\ line.kind = T_IMAGE
    /\ ~Truthy(line.content)
    /\ pc = "error"
    /\ err = NoImageContent

\* C7: a DESTINATION line to CELL processed when the current section holds no
\* table aborts the pass with an FLTError, adds no node and leaves the
\* destination as it was, which is not CELL; tables of other sections do not count.
C7_CellNeedsTable ==
    [][(/\ LineTaken /\ line'.kind = T_DESTINATION /\ line'.destination = D_CELL
        /\ querySelectorAll(heap, sect, {"table"}) = <<>>) =>
          /\ pc' = "error"
          /\ err'.kind = "FLTError"
          /\ heap' = heap
          /\ dest' = dest
          /\ dest' # D_CELL]_vars

\* the pass was aborted by a DESTINATION line to CELL although an earlier
\* section of the document holds a table
C7_Witness ==
    /\ line.kind = T_DESTINATION
    /\ line.destination = D_CELL
    /\ pc = "error"
    /\ \E t \in Tagged(heap, {"table"}) : Attached(heap, t) /\ heap[t].parent # sect

\* the lines C8 names as clearing the link
C8_Clearing(l) ==
    l.reset \/ l.kind \in {T_SECTION, T_PARAGRAPH, T_DESTINATION}

\* C8 as claimed: link is null at first and after every clearing line, and it
\* is non-null only from a LINK line on, until the next clearing line.
C8_LinkWindow ==
    /\ link = NoNode
    /\ [][/\ (LineTaken /\ C8_Clearing(line')) => link' = NoNode
          /\ link' # NoNode =>
                \/ LineTaken /\ line'.kind = T_LINK
                \/ link' = link /\ ~(LineTaken /\ C8_Clearing(line'))]_vars

\* C8 as amended: the same, but a LINK line that carries the reset flag leaves
\* link non-null: it is the anchor that line created.
C8_LinkWindowAmended ==
    /\ link = NoNode
    /\ [][/\ (LineTaken /\ C8_Clearing(line') /\ line'.kind # T_LINK) => link' = NoNode
          /\ (LineTaken /\ line'.kind = T_LINK /\ pc' = "loop") =>
                /\ link' = Len(heap')
                /\ link' > Len(heap)
                /\ heap'[link'].tag = "a"
          /\ link' # NoNode =>
                \/ LineTaken /\ line'.kind = T_LINK
                \/ link' = link /\ ~(LineTaken /\ C8_Clearing(line'))]_vars

\* a link opened by a LINK line is still open two lines later
C8_Witness ==
    /\ pos = 3
    /\ link # NoNode
    /\ link < Len(heap)
    /\ line.kind # T_LINK

\* C9: a step gives a title to at most one element, a new one, and only a LINK
\* or IMAGE line without the reset flag does so: the title is the pending hint,
\* and hint is null afterwards; a LINK or IMAGE line that completes with a
\* pending hint does so; ANCHOR, TABLE, SECTION, PARAGRAPH and text lines
\* without the reset flag leave hint as it was.
C9_HintSingleUse ==
    [][LET new == Titled(heap') \ Titled(heap)
       IN  /\ Cardinality(new) <= 1
           /\ \A n \in Titled(heap) :
                 n \in Titled(heap')
                 /\ getAttribute(heap', n, "title") = getAttribute(heap, n, "title")
           /\ new # {} =>
                 /\ LineTaken
                 /\ line'.kind \in {T_LINK, T_IMAGE}
                 /\ ~line'.reset
                 /\ Truthy(hint)
                 /\ \A n \in new : n > Len(heap) /\ getAttribute(heap', n, "title") = hint
                 /\ hint' = Null
           /\ (/\ LineTaken /\ line'.kind \in {T_LINK, T_IMAGE} /\ ~line'.reset
               /\ Truthy(hint) /\ pc' = "loop") => new # {}
           /\ (/\ LineTaken /\ ~line'.reset
               /\ line'.kind \in {T_ANCHOR, T_TABLE, T_SECTION, T_PARAGRAPH, TEXT}) =>
                 hint' = hint /\ new = {}]_vars

\* of two elements created by LINK or IMAGE lines after one HINT line, one has the title
C9_Witness ==
    /\ pos = 3
    /\ hint = Null
    /\ line.kind \in {T_LINK, T_IMAGE}
    /\ Cardinality(Titled(heap)) = 1
    /\ Cardinality({n \in Tagged(heap, {"a", "img"}) :
                       hasAttribute(heap, n, "href") \/ hasAttribute(heap, n, "src")}) = 2

\* C10: a line that carries the reset flag is handled with link and hint
\* cleared: it leaves link null unless it is a LINK line and hint null unless it
\* is a HINT line, which leaves its own content; a LINK or IMAGE line gives no
\* title, and a text line adds nothing to the link that was open.
C10_ResetFirst ==
    [][(LineTaken /\ line'.reset) =>
          /\ line'.kind # T_LINK => link' = NoNode
          /\ line'.kind # T_HINT => hint' = Null
          /\ line'.kind = T_HINT => hint' = line'.content
          /\ line'.kind \in {T_LINK, T_IMAGE} => Titled(heap') = Titled(heap)
          /\ (line'.kind = TEXT /\ link # NoNode) =>
                /\ heap'[link] = heap[link]
                /\ \A n \in (Len(heap) + 1)..Len(heap') : ~contains(heap', link, n)]_vars

\* a text line with the reset flag was processed after a link was opened: its
\* text is beside the link, which is empty
C10_Witness ==
    /\ line.kind = TEXT
    /\ line.reset
    /\ \E a \in Tagged(heap, {"a"}), t \in Tagged(heap, {"#text"}) :
          /\ hasAttribute(heap, a, "href")
          /\ ~hasChildNodes(heap, a)
          /\ heap[t].parent = heap[a].parent

\* the nodes a step has created, in the order of their creation
Created(h, g) == [i \in 1..(Len(g) - Len(h)) |-> Len(h) + i]

\* the tags of the inline wrappers, outermost first
WrapperTags == <<"em", "strong", "span", "sup", "sub">>

\* the wrapper of a tag is wanted by a style
Wanted(tag, style) ==
    CASE tag = "em" -> "italic" \in style
      [] tag = "strong" -> "bold" \in style
      [] tag = "span" -> style \cap {"underline", "strikeout", "mono"} # {}
      [] tag = "sup" -> "supertext" \in style
      [] tag = "sub" -> "subtext" \in style

\* the classes of the span of a style
SpanClasses(style) ==
    (IF "underline" \in style THEN {"underline"} ELSE {})
        \cup (IF "strikeout" \in style THEN {"strikeout"} ELSE {})
        \cup (IF "mono" \in style THEN {"monospace"} ELSE {})

\* C11: the wrappers a text line creates are those of em, strong, span, sup,
\* sub, in this order, whose flag is set (the span when underline, strikeout or
\* mono is set), each the only child of the one before it; the span carries
\* exactly the classes of its flags that are set, the other wrappers none, and
\* the text is in the innermost wrapper.
C11_NestingOrder ==
    [][(LineTaken /\ line'.kind = TEXT /\ pc' = "loop") =>
          LET wrappers == SelectSeq(Created(heap, heap'),
                                    LAMBDA n : heap'[n].tag \notin {"p", "#text", "br"})
              expected == SelectSeq(WrapperTags, LAMBDA t : Wanted(t, line'.style))
              texts == SelectSeq(Created(heap, heap'), LAMBDA n : heap'[n].tag = "#text")
          IN  /\ Len(wrappers) = Len(expected)
              /\ \A i \in 1..Len(wrappers) :
                    /\ heap'[wrappers[i]].tag = expected[i]
                    /\ i > 1 => /\ heap'[wrappers[i]].parent = wrappers[i - 1]
                                /\ heap'[wrappers[i - 1]].kids = <<wrappers[i]>>
                    /\ i = 1 => heap'[heap'[wrappers[i]].parent].tag \in {"p", "a"}
                    /\ heap'[wrappers[i]].cls =
                          IF expected[i] = "span" THEN SpanClasses(line'.style) ELSE {}
              /\ texts # <<>>
              /\ \A i \in 1..Len(texts) :
                    heap'[texts[i]].parent =
                        IF wrappers = <<>> THEN heap'[texts[i]].parent
                        ELSE wrappers[Len(wrappers)]
              /\ wrappers = <<>> => heap'[heap'[texts[1]].parent].tag \in {"p", "a"}]_vars

\* a text line of italic, bold, underline and supertext was processed: its text
\* is in em > strong > span.underline > sup
C11_Witness ==
    /\ line.kind = TEXT
    /\ line.style = {"italic", "bold", "underline", "supertext"}
    /\ \E t \in Tagged(heap, {"#text"}) :
          LET sup == heap[t].parent
              span == heap[sup].parent
              strong == heap[span].parent
              em == heap[strong].parent
          IN  /\ heap[sup].tag = "sup"
              /\ heap[span].tag = "span"
              /\ heap[span].cls = {"underline"}
              /\ heap[strong].tag = "strong"
              /\ heap[em].tag = "em"
              /\ heap[heap[em].parent].tag = "p"

\* the sections of the document, in the order of their creation
Sections(h) == SelectSeq(Ids(h), LAMBDA n : h[n].tag = "section")

\* C12: in a pass without DESTINATION lines the destination is BODY in every
\* state; the current section is the initial one until the first SECTION line
\* and then the one the latest SECTION line created, and every node a text line
\* creates is a descendant of it.
C12_BodyOnly ==
    /\ dest = D_BODY
    /\ sect = LastOf(Sections(heap))
    /\ [][/\ dest' = D_BODY
          /\ sect' = IF LineTaken /\ line'.kind = T_SECTION
                     THEN LastOf(Sections(heap'))
                     ELSE sect
          /\ (LineTaken /\ line'.kind = T_SECTION) =>
                /\ sect' > Len(heap)
                /\ heap'[sect'].parent = Body
          /\ (LineTaken /\ line'.kind = TEXT) =>
                /\ pc' = "loop"
                /\ \E n \in (Len(heap) + 1)..Len(heap') : heap'[n].tag = "#text"
                /\ \A n \in (Len(heap) + 1)..Len(heap') :
                      /\ contains(heap', sect', n)
                      /\ Attached(heap', n)
                      /\ \A o \in Tagged(heap', {"section"}) \ {sect'} :
                            ~contains(heap', o, n)]_vars

\* a text line was inserted under the section a SECTION line opened, after the
\* text of an earlier section
C12_Witness ==
    /\ line.kind = TEXT
    /\ sect # 2
    /\ \E t, u \in Tagged(heap, {"#text"}) :
          /\ contains(heap, 2, t)
          /\ contains(heap, sect, u)
          /\ u > t
          /\ Attached(heap, t)

\* C13: a TABLE line that declares zero columns aborts the pass with an
\* FLTError, and every pass that is aborted is aborted with an FLTError: the
\* modulo of the row test is never evaluated with a divisor of zero.
C13_ZeroColumnsRejected ==
    /\ (line.kind = T_TABLE /\ line.content = 0) => (pc = "error" /\ err.kind = "FLTError")
    /\ pc = "error" => err.kind = "FLTError"

\* the contents of the social-preview tags of a name, in the order of the head
OgContents(hd, name) ==
    LET tags == SelectSeq(hd, LAMBDA e : [k |-> "property", v |-> <<"og:", name>>] \in e.attrs)
    IN  [i \in 1..Len(tags) |-> (CHOOSE a \in tags[i].attrs : a.k = "content").v]

\* C14: with descriptive metadata enabled, a term without values has no
\* social-preview tag, a merge term with values has one tag, of the values
\* joined with commas, and a no-merge term has one tag for each value.
C14_AbsentTermsEmitNothing ==
    (pc # "setup" /\ dc.enabled) =>
        \A i \in 1..Len(terms) :
            LET value == getDC(dc, terms[i].term)
                tags == OgContents(head, terms[i].name)
            IN  IF value = <<>> THEN tags = <<>>
                ELSE IF terms[i].merge THEN tags = <<Join(value)>>
                ELSE tags = value

\* the number in the text of a forward anchor
NoteNumber(h, a) == getAttribute(h, h[a].kids[1], "data")

\* C15: of two passes whose steps are interleaved, each starts with noteIndex
\* 1, destination BODY and no link, hint or blob; a step of one leaves the
\* context and the tree of the other as they were; and two passes that have
\* processed the same lines (and both or neither the cleanup), each between any
\* steps of the other (or none, when it ran alone), have equal contexts and
\* equal trees, with footnotes numbered from 1 in each tree.
C15_PassesIndependent ==
    /\ [](\A c \in {Suspended, other} :
            /\ (c.hist = <<>> /\ c.pc = "loop") =>
                  /\ c.noteIndex = 1 /\ c.dest = D_BODY /\ c.link = NoNode
                  /\ c.hint = Null /\ c.blob = NoBlob /\ c.heap = DocumentBody(NoDC)
            /\ c.noteIndex = Len(Marked(c.heap, "to-note")) + 1
            /\ \A i \in 1..Len(Marked(c.heap, "to-note")) :
                  NoteNumber(c.heap, Marked(c.heap, "to-note")[i]) = Decimal(i))
    /\ []((other.hist = hist /\ other.pc = pc) => other = Suspended)
    /\ [][\/ other' = other
          \/ other' = Suspended /\ Suspended' = other]_vars

\* both passes have opened two footnotes: each tree has the footnotes 1 and 2
C15_Witness ==
    /\ Len(hist) = 2
    /\ Len(other.hist) = 2
    /\ noteIndex = 3
    /\ other.noteIndex = 3
    /\ other.heap = heap

\* the nodes a step has created under nodes that were there before
Inserted(h, g) == {n \in (Len(h) + 1)..Len(g) : g[n].parent <= Len(h)}

\* C16: the nodes of a text line are inserted in the open link when link (after
\* the line's reset) is non-null and the node resolved for the destination
\* contains it, and otherwise in the resolved node; so the text line right after
\* a LINK line, without the reset flag, is inserted in that line's anchor, and
\* so is the text line after it.
C16_InsertInLink ==
    [][(LineTaken /\ line'.kind = TEXT /\ pc' = "loop") =>
          LET r == destEl(heap, sect, dest)
              lnk == IF line'.reset THEN NoNode ELSE link
              inLink == lnk # NoNode /\ contains(r.h, r.el, lnk)
          IN  /\ Inserted(r.h, heap') # {}
              /\ \A n \in Inserted(r.h, heap') :
                    heap'[n].parent = IF inLink THEN lnk ELSE r.el
              /\ (line.kind = T_LINK /\ ~line'.reset) => (inLink /\ link' = link)
              /\ (line.kind = TEXT /\ ~line'.reset /\ link # NoNode
                    /\ heap[Len(heap)].parent = link) => inLink]_vars

\* two text lines after a LINK line: both texts are in its anchor
C16_Witness ==
    /\ pos = 3
    /\ line.kind = TEXT
    /\ link # NoNode
    /\ Len(heap[link].kids) = 2
    /\ \A i \in 1..2 : heap[heap[link].kids[i]].tag = "#text"

\* a text line was inserted beside an open link that the resolved node does
\* not contain: a table had been appended to the section after the link
C16_WitnessOutside ==
    /\ line.kind = TEXT
    /\ ~line.reset
    /\ link # NoNode
    /\ ~hasChildNodes(heap, link)
    /\ \E t \in Tagged(heap, {"#text"}) : ~contains(heap, heap[link].parent, t)

\* the paragraph children of a node, in order
Paragraphs(h, el) == SelectSeq(h[el].kids, LAMBDA k : h[k].tag = "p")

\* the step completes a line that inserts content at the destination element
InsertsContent ==
    /\ LineTaken
    /\ pc' = "loop"
    /\ \/ line'.kind \in {TEXT, T_LINK, T_ANCHOR, T_IMAGE}
       \/ line'.kind = T_DESTINATION /\ line'.destination = D_NOTE

\* the content the step has inserted at the destination element: the forward
\* anchor of a DESTINATION line to NOTE, every new node but a paragraph otherwise
Content(h, g) ==
    IF line'.kind = T_DESTINATION
    THEN {n \in (Len(h) + 1)..Len(g) : "to-note" \in g[n].cls}
    ELSE {n \in (Len(h) + 1)..Len(g) : g[n].tag # "p"}

\* C17 as claimed: with the destination BODY, the content goes to the last
\* paragraph child of the current section when it has one, and no paragraph is
\* created; it goes to a new paragraph, the section's last child, when it has none.
C17_LastParagraph ==
    [][(InsertsContent /\ dest = D_BODY) =>
          LET ps == Paragraphs(heap, sect)
          IN  IF ps # <<>>
              THEN /\ Paragraphs(heap', sect) = ps
                   /\ \A n \in Content(heap, heap') : contains(heap', LastOf(ps), n)
              ELSE /\ Paragraphs(heap', sect) = <<Len(heap) + 1>>
                   /\ \A n \in Content(heap, heap') : contains(heap', Len(heap) + 1, n)]_vars

\* C17 as amended: with the destination BODY, the content goes to the last
\* element child of the current section when that child is a paragraph, and no
\* paragraph is created; otherwise (no element child, or the last one is a
\* table, a heading or a footnote) it goes to a new paragraph appended to the
\* section, whether or not the section has paragraphs.
C17_LastChildParagraph ==
    [][(InsertsContent /\ dest = D_BODY) =>
          LET ps == Paragraphs(heap, sect)
              e == lastElementChild(heap, sect)
          IN  /\ Content(heap, heap') # {}
              /\ IF e # NoNode /\ heap[e].tag = "p"
                 THEN /\ Paragraphs(heap', sect) = ps
                      /\ \A n \in Content(heap, heap') : contains(heap', e, n)
                 ELSE /\ Paragraphs(heap', sect) = Append(ps, Len(heap) + 1)
                      /\ \A k \in 1..Len(heap[sect].kids) :
                            heap'[sect].kids[k] = heap[sect].kids[k]
                      /\ heap'[sect].kids[Len(heap[sect].kids) + 1] = Len(heap) + 1
                      /\ \A n \in Content(heap, heap') : contains(heap', Len(heap) + 1, n)]_vars

\* a text line was inserted in a new paragraph after a table, in a section
\* that had a paragraph before the table
C17_Witness ==
    /\ line.kind = TEXT
    /\ dest = D_BODY
    /\ \E i, j, k \in 1..Len(heap[sect].kids) :
          /\ i < j /\ j < k
          /\ heap[heap[sect].kids[i]].tag = "p"
          /\ heap[heap[sect].kids[j]].tag = "table"
          /\ heap[heap[sect].kids[k]].tag = "p"
          /\ hasChildNodes(heap, heap[sect].kids[k])

\* the nearest enclosing footnote container, cell or section of a node
Enclosing(h, el) ==
    LET up[n \in 0..Len(h)] ==
            IF n = 0 THEN NoNode
            ELSE IF h[n].tag \in {"aside", "td", "th", "section"} THEN n
            ELSE up[h[n].parent]
    IN  up[el]

\* the PARAGRAPH line of the step has appended a new paragraph, the last node of
\* the document, as the last child of the nearest enclosing footnote container,
\* cell or section of the destination node
C18_Appended ==
    LET r == destEl(heap, sect, dest)
        p == Len(heap')
    IN  /\ p > Len(heap)
        /\ heap'[p].tag = "p"
        /\ heap'[p].kids = <<>>
        /\ heap'[p].parent = Enclosing(r.h, r.el)
        /\ LastOf(heap'[heap'[p].parent].kids) = p
        /\ paras' = Append(paras, p)

\* the text line of the step has inserted its nodes in the paragraph p and in
\* no other paragraph
C18_TextIn(p) ==
    /\ Content(heap, heap') # {}
    /\ \A n \in Content(heap, heap') :
          /\ contains(heap', p, n)
          /\ \A q \in Tagged(heap', {"p"}) \ {p} : ~contains(heap', q, n)

Dividers(h) == Tagged(h, {"hr"})

\* C19: a SECTION line discards the current section if it has no child; it
\* inserts a divider, right before the new section, if and only if it carries
\* the break flag and a section is left under the body before the new one; the
\* new section is the last child of the body, and no other line adds a divider.
C19_DividerBeforeSection ==
    [][IF LineTaken /\ line'.kind = T_SECTION
       THEN LET kept == IF hasChildNodes(heap, sect) THEN heap[Body].kids
                        ELSE SelectSeq(heap[Body].kids, LAMBDA k : k # sect)
                first == \A i \in 1..Len(kept) : heap[kept[i]].tag # "section"
                added == Dividers(heap') \ Dividers(heap)
            IN  /\ pc' = "loop"
                /\ heap'[sect'].tag = "section"
                /\ sect' > Len(heap)
                /\ IF line'.brk /\ ~first
                   THEN \E hr \in added :
                           /\ added = {hr}
                           /\ heap'[Body].kids = kept \o <<hr, sect'>>
                   ELSE /\ added = {}
                        /\ heap'[Body].kids = Append(kept, sect')
       ELSE Dividers(heap') = Dividers(heap)]_vars

\* a SECTION line with the break flag has inserted a divider between a section
\* with content and the new section
C19_Witness ==
    /\ line.kind = T_SECTION
    /\ line.brk
    /\ pos = 3
    /\ Cardinality(Dividers(heap)) = 1
    /\ Len(heap[Body].kids) = 3
    /\ heap[heap[Body].kids[1]].tag = "section"
    /\ heap[heap[Body].kids[2]].tag = "hr"
    /\ heap[Body].kids[3] = sect

\* the positions of the line breaks of a text, in order
Breaks(t) == SelectSeq([i \in 1..Len(t) |-> i], LAMBDA i : t[i] = "\n")

\* the i-th of the fragments of a text: what is between its line breaks i - 1 and i
Fragment(t, i) ==
    LET b == Breaks(t)
        from == IF i = 1 THEN 1 ELSE b[i - 1] + 1
        to == IF i = Len(b) + 1 THEN Len(t) ELSE b[i] - 1
    IN  SubSeq(t, from, to)

\* C20: a text line whose text has n - 1 line breaks, and so n fragments,
\* appends to one node, the innermost wrapper, 2n - 1 children: the text nodes
\* of the fragments in order, with one br between each two; the last child is
\* the text node of the last fragment, and the line creates no other text
\* node and no other br.
C20_FragmentsAndBreaks ==
    [][(LineTaken /\ line'.kind = TEXT /\ pc' = "loop") =>
          LET n == Len(Breaks(line'.text)) + 1
              out == heap'[Len(heap')].parent
              new == SelectSeq(heap'[out].kids, LAMBDA k : k > Len(heap))
          IN  /\ Len(new) = 2 * n - 1
              /\ LastOf(heap'[out].kids) = LastOf(new)
              /\ \A i \in 1..Len(new) :
                    IF i % 2 = 1
                    THEN /\ heap'[new[i]].tag = "#text"
                         /\ getAttribute(heap', new[i], "data") = Fragment(line'.text, (i + 1) \div 2)
                    ELSE heap'[new[i]].tag = "br"
              /\ \A k \in (Len(heap) + 1)..Len(heap') :
                    heap'[k].tag \in {"#text", "br"} => heap'[k].parent = out
              /\ heap'[out].tag \notin {"#text", "br"}]_vars

\* a text line of three fragments, the second empty, in a strong > span: the
\* span holds three text nodes and two line breaks
C20_Witness ==
    /\ line.kind = TEXT
    /\ line.text = <<"a", "\n", "\n", "b">>
    /\ \E o \in Tagged(heap, {"span"}) :
          /\ heap[heap[o].parent].tag = "strong"
          /\ [i \in 1..Len(heap[o].kids) |-> heap[heap[o].kids[i]].tag]
                = <<"#text", "br", "#text", "br", "#text">>
          /\ getAttribute(heap, heap[o].kids[3], "data") = <<>>

\* C21: a HINT line and a BLOB line without the reset flag leave the tree, the
\* destination, the current section, link and noteIndex unchanged; the HINT line
\* changes only hint, to its content, and the BLOB line changes only blob, to
\* its media type and data.
C21_HintBlobFrame ==
    [][(LineTaken /\ ~line'.reset /\ line'.kind \in {T_HINT, T_BLOB}) =>
          /\ heap' = heap
          /\ dest' = dest
          /\ sect' = sect
          /\ link' = link
          /\ noteIndex' = noteIndex
          /\ pc' = "loop"
          /\ line'.kind = T_HINT => (hint' = line'.content /\ blob' = blob)
          /\ line'.kind = T_BLOB =>
                (blob' = [type |-> line'.mediaType, data |-> line'.data] /\ hint' = hint)]_vars

\* a BLOB line without the reset flag was processed while a link was open and a
\* hint, set by a HINT line after the link, was pending: link and hint are still
\* there
C21_Witness ==
    /\ line.kind = T_BLOB
    /\ ~line.reset
    /\ blob # NoBlob
    /\ hint = <<"tip">>
    /\ link # NoNode
    /\ heap[link].tag = "a"

\* the elements of the sequence s
Range(s) == {s[i] : i \in 1..Len(s)}

\* the destination can be resolved: when it is NOTE the current section
\* contains a footnote container that holds a paragraph, when it is CELL the
\* current section contains a table cell, and resolving the destination element
\* does not fail and yields a node that exists and is inside the current section
C22_Resolves ==
    /\ dest \in Destinations
    /\ dest = D_NOTE =>
          \E a \in Range(querySelectorAll(heap, sect, {"aside"})) :
             querySelectorAll(heap, a, {"p"}) # <<>>
    /\ dest = D_CELL => querySelectorAll(heap, sect, {"th", "td"}) # <<>>
    /\ LET r == destEl(heap, sect, dest)
       IN  /\ r.err = NoError
           /\ r.el \in 1..Len(r.h)
           /\ r.el # sect
           /\ contains(r.h, sect, r.el)
    /\ err.kind # "TypeError"

\* C22, as the claim states it: in every reachable state, the state the
\* cleanup leaves included, the destination can be resolved.
C22_AlwaysResolves == C22_Resolves

\* C22, amended: in every reachable state up to the end of the line loop (where
\* the destination is resolved for the last time) the destination can be
\* resolved; after the cleanup it can be resolved too, unless the destination
\* is NOTE and the cleanup has removed the paragraphs of the last footnote
\* container, which were empty.
C22_DestinationResolves ==
    /\ pc # "done" => C22_Resolves
    /\ (pc = "done" /\ ~C22_Resolves) =>
          /\ dest = D_NOTE
          /\ LastOf(querySelectorAll(heap, sect, {"aside"})) # NoNode
          /\ querySelectorAll(heap, LastOf(querySelectorAll(heap, sect, {"aside"})), {"p"}) = <<>>

\* a DESTINATION line to NOTE was processed while the destination was CELL: the
\* section has a cell, which holds the forward anchor, and a footnote with its
\* paragraph, which is the destination element
C22_Witness ==
    /\ dest = D_NOTE
    /\ pc = "loop"
    /\ line.kind = T_DESTINATION
    /\ \E c \in Range(querySelectorAll(heap, sect, {"th", "td"})) :
          \E a \in Range(heap[c].kids) : "to-note" \in heap[a].cls
    /\ heap[destEl(heap, sect, dest).el].tag = "p"
    /\ heap[heap[destEl(heap, sect, dest).el].parent].tag = "aside"

\* C23: whenever link is not null it is an anchor element with an href that is
\* in the document, inside the current section, which is itself in the
\* document; it is in no other section, discarded or not.
C23_LinkInCurrentSection ==
    link # NoNode =>
        /\ link \in 1..Len(heap)
        /\ heap[link].tag = "a"
        /\ hasAttribute(heap, link, "href")
        /\ Attached(heap, link)
        /\ Attached(heap, sect)
        /\ contains(heap, sect, link)
        /\ \A o \in Tagged(heap, {"section"}) \ {sect} : ~contains(heap, o, link)

\* a link is open in the third section of the pass: the first was discarded
\* empty, the second is still in the document
C23_Witness ==
    /\ link # NoNode
    /\ line.kind = T_LINK
    /\ \E o, q \in Tagged(heap, {"section"}) \ {sect} :
          /\ ~Attached(heap, o)
          /\ Attached(heap, q)

====
